---- MODULE Spec2Model ----
(***************************************************************************)
(* Model of AhkDebugSession (the debug adapter between the IDE protocol    *)
(* and a DBGp debuggee): breakpoint registry, continuation state machine,  *)
(* advanced-breakpoint evaluation and the variable projection layer.       *)
(*                                                                         *)
(* Strings are sequences of one-character strings; the value `undefined`   *)
(* of an optional string is the one-element sequence Undefined.            *)
(*                                                                         *)
(* A handler is one action per stretch between two awaits.  A command the  *)
(* handler awaits inside a try block either returns or is rejected         *)
(* (Outcomes); a command awaited outside any try block is taken to return. *)
(* The variable `scope` fixes what the environment does in a               *)
(* specification: the files and lines the IDE uses, whether requests       *)
(* overlap a flow under way, whether commands can be rejected, how many    *)
(* breakpoints a request carries and a session sets, and which advanced    *)
(* fields they have.                                                       *)
(*                                                                         *)
(* trace, lastEval, lastSet, lastScopes, lastVariables, issued, stopMark   *)
(* and sbpResponse are history variables: they record what the adapter     *)
(* sent or decided and are read by the properties only.                    *)
(***************************************************************************)
EXTENDS Integers, Sequences, FiniteSets, TLC

\* ------------------------------------------------------------------ bounds
\* longest hit-condition string drawn in SpecHit
MaxHitLen == 3
\* largest hit counter reached in SpecHit
MaxCounter == 9
\* most breakpoints in one setBreakpoints request
MaxBps == 1
\* most breakpoints the debuggee is asked to set in one session
MaxBpId == 2
\* most breakpoints in one request of SpecSet and SpecSetOverlap
MaxSiblings == 2
\* most breakpoints the debuggee is asked to set in one session of SpecSet
MaxSetIds == 4
\* most evaluations of one breakpoint record
MaxHits == 2
\* most stack-frame ids issued in one session
MaxFrameId == 3
\* most variable references issued in one session
MaxRef == 4
\* most stackTrace/scopes/variables requests awaiting the debuggee at once
MaxInflight == 2
\* deepest stack the debuggee reports
MaxDepth == 2
\* elements of the debuggee's array
ArrayLen == 150
\* the threshold of maxIndex above which an array is reported for paging
PageThreshold == 100

\* ------------------------------------------------------------- JS strings
Undefined == <<"undefined">>

\* JS truthiness of an optional string: undefined and "" are falsy
Truthy(s) == s # Undefined /\ s # <<>>

DigitChars == <<"0", "1", "2", "3", "4", "5", "6", "7", "8", "9">>

IsDigit(c) == \E i \in 1..Len(DigitChars) : DigitChars[i] = c

DigitVal(c) == (CHOOSE i \in 1..Len(DigitChars) : DigitChars[i] = c) - 1

IsSpace(c) == c = " "

\* value of a digit string read in the given radix
RECURSIVE RadixValue(_, _)
RadixValue(ds, radix) ==
    IF ds = <<>> THEN 0
    ELSE RadixValue(SubSeq(ds, 1, Len(ds) - 1), radix) * radix + DigitVal(ds[Len(ds)])

\* The number a digit string denotes as a numeric literal of non-strict
\* script code: "0" followed only by octal digits is a legacy octal literal,
\* any other digit string is decimal.
JsNumericLiteral(ds) ==
    IF Len(ds) > 1 /\ ds[1] = "0" /\ \A i \in 1..Len(ds) : DigitVal(ds[i]) < 8
    THEN RadixValue(ds, 8)
    ELSE RadixValue(ds, 10)

\* ------------------------------------------------- hit-condition evaluation
\* alternatives of the operator group, in the order the pattern lists them
HitOperators == << <<"<", "=">>, <<"<">>, <<">", "=">>, <<">">>,
                   <<"=", "=">>, <<"=">>, <<"%">> >>

StartsWith(s, p) == Len(s) >= Len(p) /\ SubSeq(s, 1, Len(p)) = p

\* r matches \s*\d+$
MatchesSpaceNumber(r) ==
    \E k \in 0..Len(r) :
        /\ k < Len(r)
        /\ \A i \in 1..k : IsSpace(r[i])
        /\ \A i \in (k + 1)..Len(r) : IsDigit(r[i])

\* the digits matched by the group `number`
NumberGroup(r) ==
    LET k == CHOOSE j \in 0..Len(r) :
                 /\ j < Len(r)
                 /\ \A i \in 1..j : IsSpace(r[i])
                 /\ \A i \in (j + 1)..Len(r) : IsDigit(r[i])
    IN SubSeq(r, k + 1, Len(r))

\* hitCondition.match(/^(?<operator><=|<|>=|>|==|=|%)?\s*(?<number>\d+)$/u):
\* the first alternative after which the rest matches, else no operator.
HitMatch(s) ==
    LET fits(i) == /\ StartsWith(s, HitOperators[i])
                   /\ MatchesSpaceNumber(SubSeq(s, Len(HitOperators[i]) + 1, Len(s)))
    IN IF \E i \in 1..Len(HitOperators) : fits(i)
       THEN LET i == CHOOSE j \in 1..Len(HitOperators) :
                        fits(j) /\ \A h \in 1..(j - 1) : ~fits(h)
            IN [matched |-> TRUE, operator |-> HitOperators[i],
                number |-> NumberGroup(SubSeq(s, Len(HitOperators[i]) + 1, Len(s)))]
       ELSE IF MatchesSpaceNumber(s)
       THEN [matched |-> TRUE, operator |-> Undefined, number |-> NumberGroup(s)]
       ELSE [matched |-> FALSE, operator |-> Undefined, number |-> <<>>]

\* _operator: the default '>=' and '=' read as '=='
NormalizeOperator(op) ==
    IF op = Undefined THEN <<">", "=">>
    ELSE IF op = <<"=">> THEN <<"=", "=">>
    ELSE op

\* safeEval of `(${counter} % ${number} === 0)` or `${counter} ${_operator} ${number}`
EvalHitCode(counter, op, number) ==
    LET n == JsNumericLiteral(number)
    IN IF op = <<"%">> THEN (IF n = 0 THEN FALSE ELSE counter % n = 0)
       ELSE IF op = <<"<", "=">> THEN counter <= n
       ELSE IF op = <<"<">> THEN counter < n
       ELSE IF op = <<">", "=">> THEN counter >= n
       ELSE IF op = <<">">> THEN counter > n
       ELSE counter = n

\* hitConditionResult of checkAdvancedBreakpoint
HitConditionResult(counter, hitCondition) ==
    IF ~Truthy(hitCondition) THEN FALSE
    ELSE LET m == HitMatch(hitCondition)
         IN IF m.matched
            THEN EvalHitCode(counter, NormalizeOperator(m.operator), m.number)
            ELSE FALSE

\* ------------------------------------------------------------ paths and keys
LowerChar(c) == IF c = "A" THEN "a" ELSE IF c = "B" THEN "b" ELSE c

UpperChar(c) == IF c = "a" THEN "A" ELSE IF c = "b" THEN "B" ELSE c

\* String.prototype.toLowerCase
ToLowerCase(s) == [i \in 1..Len(s) |-> LowerChar(s[i])]

\* String(number) of a non-negative integer
RECURSIVE Decimal(_)
Decimal(n) ==
    IF n < 10 THEN <<DigitChars[n + 1]>>
    ELSE Decimal(n \div 10) \o <<DigitChars[(n % 10) + 1]>>

UriScheme == <<"file://">>

\* convertClientPathToDebugger with the debugger path format 'uri'
ConvertClientPathToDebugger(filePath) == UriScheme \o filePath

\* convertDebuggerPathToClient: the path of a file URI
ConvertDebuggerPathToClient(fileUri) == SubSeq(fileUri, Len(UriScheme) + 1, Len(fileUri))

\* the spelling under which the debuggee reports a file it was given
\* (it differs from the IDE's spelling in letter case)
DebuggeeFileUri(fileUri) == [i \in 1..Len(fileUri) |-> UpperChar(fileUri[i])]

\* the template literal `${path}${line}` indexing this.breakpoints
RegistryKey(path, line) == path \o Decimal(line)

\* ----------------------------------------------------------------- domains
\* source files the IDE configures, as it spells their paths
ClientPaths == { <<"A">>, <<"a", "1">> }

\* lines the IDE asks breakpoints for
RequestLines == {1, 2}

\* the line the debuggee places a breakpoint requested for line l on
\* (line 1 holds no code: the breakpoint moves to the next line with code)
DebuggeeLine(l) == IF l = 1 THEN 2 ELSE l

\* the advanced fields the IDE attaches to a breakpoint: none, a condition,
\* a hit condition, both, a log message, a log message with a condition
AdvancedFields ==
    { [condition |-> Undefined, hitCondition |-> Undefined, logMessage |-> Undefined],
      [condition |-> <<"c">>, hitCondition |-> Undefined, logMessage |-> Undefined],
      [condition |-> Undefined, hitCondition |-> <<"%", "2">>, logMessage |-> Undefined],
      [condition |-> <<"c">>, hitCondition |-> <<"%", "2">>, logMessage |-> Undefined],
      [condition |-> Undefined, hitCondition |-> Undefined, logMessage |-> <<"m">>],
      [condition |-> <<"c">>, hitCondition |-> Undefined, logMessage |-> <<"m">>] }

\* sequences over S of length at most n
SeqsUpTo(S, n) == UNION { [1..k -> S] : k \in 0..n }

\* ------------------------------------------------------------------- state
VARIABLES
    scope,              \* what the IDE and the debuggee do in this session: the files
                        \* and lines worked with, whether requests overlap, whether
                        \* the debuggee rejects commands, the values its
                        \* conditions take
    config,             \* LaunchRequestArguments: stopOnEntry, useAdvancedBreakpoint
    phase,              \* "configuring" until configurationDone, then "configured"
    ideStopped,         \* the IDE holds a stop notification it has not resumed from
    terminated,         \* a terminated notification was emitted
    breakpoints,        \* this.breakpoints: registry key -> dbgp.Breakpoint
    dbgBps,             \* the debuggee's breakpoint list: {[id, fileUri, line]}
    dbgNextId,          \* the id the debuggee gives its next breakpoint
    dbgLoc,             \* the debuggee's top stack frame while in break
    cont,               \* the continuation flow (request handler / checkContinuationStatus)
    trace,              \* what the adapter emitted since the last continuation response
    lastEval,           \* the evaluation checkAdvancedBreakpoint made in this round
    sbp,                \* the setBreakPointsRequest handler
    tasks,              \* set/get command pairs under way, in the order sent
    vscodeBreakpoints,  \* the response array of the awaited request
    sbpResponse,        \* the last setBreakpoints response sent
    lastSet,            \* the last registry update of setBreakPointsRequest
    stackFrameIdCounter,
    stackFrames,        \* this.stackFrames: frame id -> dbgp.StackFrame
    variableReferenceCounter,
    contexts,           \* this.contexts: variable reference -> dbgp.Context
    objectProperties,   \* this.objectProperties: variable reference -> dbgp.ObjectProperty
    pending,            \* stackTrace/scopes/variables requests awaiting the debuggee
    lastScopes,         \* the outcome of the last scopes request
    lastVariables,      \* the outcome of the last variables request
    issued,             \* every handle issued, in the order issued
    stopMark,           \* the two counters when the last stop notification was emitted
    hit,                \* SpecHit: a hit condition, the counter and the last result
    log,                \* SpecLog: one call of evalLogMessage
    inst                \* SpecInst: one call of the library function InstanceOf

projVars == <<stackFrameIdCounter, stackFrames, variableReferenceCounter, contexts,
              objectProperties, pending, lastScopes, lastVariables, issued>>

bpVars == <<dbgBps, dbgNextId, sbp, tasks, vscodeBreakpoints, sbpResponse, lastSet,
            projVars, hit, log, inst>>

contVars == <<scope, config, phase, ideStopped, terminated, dbgLoc, cont, trace, lastEval,
              stopMark, projVars, hit, log, inst>>


vars == <<scope, config, phase, ideStopped, terminated, breakpoints, dbgBps, dbgNextId, dbgLoc,
          cont, trace, lastEval, sbp, tasks, vscodeBreakpoints, sbpResponse, lastSet,
          projVars, stopMark, hit, log, inst>>

\* lines holding code, where the debuggee can break
CodeLines == { DebuggeeLine(l) : l \in scope.lines }

\* where the debuggee can be when it reports break
Locations ==
    [fileUri : { DebuggeeFileUri(ConvertClientPathToDebugger(p)) : p \in scope.paths },
     line : CodeLines]

\* DebugProtocol.SourceBreakpoint, as far as the adapter reads it
SourceBreakpoints ==
    { [line |-> l, condition |-> a.condition, hitCondition |-> a.hitCondition,
       logMessage |-> a.logMessage] : l \in scope.lines, a \in scope.advanced }

NoLocals == [condition |-> Undefined, hitCondition |-> Undefined,
             logMessage |-> Undefined, counter |-> 0]

IdleCont == [pc |-> "idle", cmd |-> "none", origin |-> "none", check |-> FALSE,
             locals |-> NoLocals]

NoEval == [evaluated |-> FALSE, locals |-> NoLocals, conditionResult |-> FALSE,
           hitConditionResult |-> FALSE, matchCondition |-> FALSE, action |-> "none"]

NoLoc == [fileUri |-> <<>>, line |-> 0]

IdleSbp == [pc |-> "idle", filePath |-> <<>>, args |-> <<>>, requested |-> 0,
            removing |-> {}, cleared |-> <<>>, before |-> {}, awaited |-> FALSE,
            lines |-> <<>>]

NoResponse == [sent |-> FALSE, filePath |-> <<>>, requested |-> 0, body |-> <<>>,
               before |-> {}, awaited |-> FALSE, lines |-> <<>>]

NoScopes == [done |-> FALSE, frameId |-> 0, ok |-> FALSE, stale |-> FALSE]

NoVariables == [done |-> FALSE,
                args |-> [variablesReference |-> 0, filter |-> "none", start |-> 0,
                          count |-> 0, stale |-> FALSE],
                source |-> "none",
                context |-> [name |-> <<>>, level |-> 0],
                property |-> [name |-> <<>>, fullName |-> <<>>, type |-> "undefined",
                              isIndex |-> FALSE, index |-> 0, isArray |-> FALSE,
                              maxIndex |-> 0],
                variables |-> <<>>]

NoHit == [hitCondition |-> Undefined, counter |-> 0, result |-> FALSE, evaluated |-> FALSE]

NoInst == [pc |-> "none", object |-> 0, superClass |-> 0, base |-> <<>>,
           result |-> FALSE, nested |-> 0]

NoLog == [pc |-> "none", logMessage |-> <<>>, store |-> <<>>, names |-> <<>>,
          waiting |-> {}, evaled |-> <<>>, result |-> <<>>]

NoSet == [done |-> FALSE, filePath |-> <<>>, line |-> 0, merged |-> FALSE,
          hadBefore |-> FALSE, counterBefore |-> 0, counterNow |-> 0,
          failed |-> FALSE, awaited |-> FALSE, output |-> FALSE]

\* the session right after launch and the debuggee's init packet
Launched ==
    /\ phase = "configuring"
    /\ ideStopped = FALSE
    /\ terminated = FALSE
    /\ breakpoints = <<>>
    /\ dbgBps = {}
    /\ dbgNextId = 1
    /\ dbgLoc = NoLoc
    /\ cont = IdleCont
    /\ trace = <<>>
    /\ lastEval = NoEval
    /\ sbp = IdleSbp
    /\ tasks = <<>>
    /\ vscodeBreakpoints = <<>>
    /\ sbpResponse = NoResponse
    /\ lastSet = NoSet
    /\ stackFrameIdCounter = 1
    /\ stackFrames = <<>>
    /\ variableReferenceCounter = 1
    /\ contexts = <<>>
    /\ objectProperties = <<>>
    /\ pending = <<>>
    /\ lastScopes = NoScopes
    /\ lastVariables = NoVariables
    /\ issued = [frames |-> <<>>, refs |-> <<>>]
    /\ stopMark = [frames |-> 1, refs |-> 1]

Init ==
    /\ scope = [paths |-> ClientPaths, lines |-> RequestLines, overlap |-> FALSE,
                faults |-> TRUE, bps |-> MaxBps, ids |-> MaxBpId,
                advanced |-> AdvancedFields, truths |-> BOOLEAN]
    /\ config \in [stopOnEntry : BOOLEAN, useAdvancedBreakpoint : BOOLEAN]
    /\ hit = NoHit
    /\ log = NoLog
    /\ inst = NoInst
    /\ Launched

\* whether a command sent to the debuggee succeeds
Outcomes == IF scope.faults THEN BOOLEAN ELSE {TRUE}

\* ------------------------------------------------- continuation state machine
\* a variant that asks for the breakpoint check whenever advanced breakpoints
\* are on; the property of C6 must tell it from ConfigurationDoneCheck
ConfigurationDoneCheckAlways(cfg) == cfg.useAdvancedBreakpoint

\* the second argument configurationDoneRequest gives checkContinuationStatus
ConfigurationDoneCheck(cfg) ==
    IF cfg.useAdvancedBreakpoint THEN ~cfg.stopOnEntry ELSE FALSE

\* response.commandName.startsWith('step')
IsStepCommand(cmd) == cmd \in {"step_into", "step_over", "step_out"}

StopReason(cmd) == IF IsStepCommand(cmd) THEN "step" ELSE "breakpoint"

\* session.isRunningContinuationCommand
IsRunningContinuationCommand == cont.pc = "command"

\* a variant that answers the continue request only; the property of C14
\* must tell it from Responds
RespondsToContinue(origin) == origin = "continue"

\* the handlers that answer their request once the command has returned
Responds(origin) == origin \in {"continue", "next", "stepIn", "stepOut"}

\* a variant without the initial `true`: nothing present matches nothing; the
\* property of C2 must tell it from MatchCondition
MatchConditionNoDefault(condition, hitCondition, conditionResult, hitConditionResult) ==
    IF Truthy(condition) /\ Truthy(hitCondition)
    THEN conditionResult /\ hitConditionResult
    ELSE conditionResult \/ hitConditionResult

\* a variant that always requires both results; the property of C4 must tell
\* it from MatchCondition
MatchConditionBoth(condition, hitCondition, conditionResult, hitConditionResult) ==
    IF Truthy(condition) \/ Truthy(hitCondition)
    THEN conditionResult /\ hitConditionResult
    ELSE TRUE

\* matchCondition of checkAdvancedBreakpoint
MatchCondition(condition, hitCondition, conditionResult, hitConditionResult) ==
    IF Truthy(condition) /\ Truthy(hitCondition)
    THEN conditionResult /\ hitConditionResult
    ELSE IF Truthy(condition) \/ Truthy(hitCondition)
    THEN conditionResult \/ hitConditionResult
    ELSE TRUE

\* a variant that halts on every match; the property of C5 must tell it from
\* EvalAction
EvalActionHalt(matchCondition, logMessage) ==
    IF matchCondition THEN "halt" ELSE "continue"

\* what checkAdvancedBreakpoint does with the combined result
EvalAction(matchCondition, logMessage) ==
    IF matchCondition
    THEN (IF logMessage = Undefined THEN "halt" ELSE "log")
    ELSE "continue"

\* a variant in which the run is not sent again; the property of C21 must
\* tell it from RunCommand
RunCommandDropped == IdleCont

\* checkAdvancedBreakpoint's sendRunCommand, its answer checked like a
\* continue's
RunCommand == [pc |-> "command", cmd |-> "run", origin |-> "auto", check |-> TRUE,
               locals |-> NoLocals]

\* sendEvent(new StoppedEvent(reason)) ending the flow
SendStopped(tr, reason) ==
    /\ trace' = tr \o << "stop:" \o reason >>
    /\ ideStopped' = TRUE
    /\ stopMark' = [frames |-> stackFrameIdCounter, refs |-> variableReferenceCounter]
    /\ cont' = IdleCont

\* checkAdvancedBreakpoint from the hit condition on, conditionResult known
Decide(locals, conditionResult, tr) ==
    LET hitConditionResult == HitConditionResult(locals.counter, locals.hitCondition)
        match == MatchCondition(locals.condition, locals.hitCondition, conditionResult,
                                hitConditionResult)
        act == EvalAction(match, locals.logMessage)
    IN /\ lastEval' = [evaluated |-> TRUE, locals |-> locals,
                       conditionResult |-> conditionResult,
                       hitConditionResult |-> hitConditionResult,
                       matchCondition |-> match, action |-> act]
       /\ IF act = "halt" THEN SendStopped(tr, "conditional breakpoint")
          ELSE IF act = "log"
          THEN /\ trace' = tr
               /\ cont' = [cont EXCEPT !.pc = "log", !.locals = locals]
               /\ UNCHANGED <<ideStopped, stopMark>>
          ELSE /\ trace' = tr \o <<"rerun">>
               /\ cont' = RunCommand
               /\ UNCHANGED <<ideStopped, stopMark>>

ConfigurationDoneRequest ==
    /\ phase = "configuring" /\ cont.pc = "idle" /\ sbp.pc = "idle" /\ tasks = <<>>
    /\ phase' = "configured"
    /\ cont' = [IdleCont EXCEPT !.pc = "feature_set", !.origin = "configurationDone"]
    /\ UNCHANGED <<scope, config, ideStopped, stopMark, terminated, dbgLoc, trace, lastEval, breakpoints>>
    /\ UNCHANGED bpVars

\* configurationDoneRequest after sendFeatureSetCommand has returned
FeatureSetResponse ==
    /\ cont.pc = "feature_set"
    /\ cont' = [cont EXCEPT !.pc = "command",
                            !.cmd = IF config.stopOnEntry THEN "step_into" ELSE "run",
                            !.check = ConfigurationDoneCheck(config)]
    /\ UNCHANGED <<scope, config, phase, ideStopped, stopMark, terminated, dbgLoc, trace, lastEval, breakpoints>>
    /\ UNCHANGED bpVars

\* a variant that asks for the breakpoint check after every command; the
\* property of C18 must tell it from CheckExtraBreakpoint
CheckExtraBreakpointAlways(origin) == TRUE

\* the second argument a request handler gives checkContinuationStatus
CheckExtraBreakpoint(origin) == origin = "continue"

\* a request handler sending its continuation command
SendContinuation(origin, cmd, check) ==
    /\ ideStopped /\ ~terminated /\ cont.pc = "idle"
    /\ scope.overlap \/ (sbp.pc = "idle" /\ tasks = <<>>)
    /\ ideStopped' = FALSE
    /\ cont' = [IdleCont EXCEPT !.pc = "command", !.cmd = cmd, !.origin = origin,
                                !.check = check]
    /\ trace' = <<>>
    /\ lastEval' = NoEval
    /\ dbgLoc' = NoLoc
    /\ UNCHANGED <<scope, config, phase, terminated, breakpoints, stopMark>>
    /\ UNCHANGED bpVars

ContinueRequest ==
    SendContinuation("continue", "run", CheckExtraBreakpoint("continue"))

NextRequest ==
    SendContinuation("next", "step_over", CheckExtraBreakpoint("next"))

StepInRequest ==
    SendContinuation("stepIn", "step_into", CheckExtraBreakpoint("stepIn"))

StepOutRequest ==
    SendContinuation("stepOut", "step_out", CheckExtraBreakpoint("stepOut"))

\* where a command can leave the debuggee in break: run stops at a breakpoint
\* the debuggee holds, a step at any line with code
BreakLocations(cmd) ==
    IF cmd = "run" THEN { [fileUri |-> b.fileUri, line |-> b.line] : b \in dbgBps }
    ELSE Locations

\* a variant that treats the end of the debuggee as a break; the property of
\* C17 must tell it from StatusEffect
StatusEffectNoExit(status, check) ==
    IF status \in {"break", "stopped"} THEN (IF check THEN "lookup" ELSE "stop")
    ELSE "none"

\* what checkContinuationStatus does for a status
StatusEffect(status, check) ==
    IF status = "stopped" THEN "terminated"
    ELSE IF status = "break" THEN (IF check THEN "lookup" ELSE "stop")
    ELSE "none"

\* the continuation command returns; sendResponse and checkContinuationStatus
\* up to its first await
CommandResponse ==
    /\ cont.pc = "command"
    /\ \E status \in {"running", "break", "stopped"} :
       \E loc \in (IF status = "break" THEN BreakLocations(cont.cmd) ELSE {NoLoc}) :
          LET tr == <<cont.origin, cont.cmd>>
                    \o (IF Responds(cont.origin) THEN <<"response">> ELSE <<>>)
                    \o <<status>>
          IN /\ dbgLoc' = loc
             /\ lastEval' = NoEval
             /\ IF StatusEffect(status, cont.check) = "terminated"
                THEN /\ trace' = tr \o <<"terminated">>
                     /\ terminated' = TRUE
                     /\ cont' = IdleCont
                     /\ UNCHANGED <<ideStopped, stopMark>>
                ELSE IF StatusEffect(status, cont.check) = "none"
                THEN /\ trace' = tr
                     /\ cont' = IdleCont
                     /\ UNCHANGED <<ideStopped, stopMark, terminated>>
                ELSE IF StatusEffect(status, cont.check) = "lookup"
                THEN /\ trace' = tr \o <<"stack_get">>
                     /\ cont' = [cont EXCEPT !.pc = "lookup"]
                     /\ UNCHANGED <<ideStopped, stopMark, terminated>>
                ELSE /\ SendStopped(tr, StopReason(cont.cmd))
                     /\ UNCHANGED terminated
    /\ UNCHANGED <<scope, config, phase, breakpoints>>
    /\ UNCHANGED bpVars

\* the registry key getCurrentBreakpoint reads for a stack frame
CurrentKey(frame) ==
    RegistryKey(ToLowerCase(ConvertDebuggerPathToClient(frame.fileUri)), frame.line)

\* getCurrentBreakpoint's stack_get returns (or fails: ok = FALSE); then
\* checkAdvancedBreakpoint up to its first await
LookupResponse ==
    /\ cont.pc = "lookup"
    /\ \E ok \in Outcomes :
          LET key == CurrentKey(dbgLoc)
          IN IF ok /\ key \in DOMAIN breakpoints
             THEN LET data == [breakpoints[key].advancedData EXCEPT !.counter = @ + 1]
                      locals == [condition |-> data.condition,
                                 hitCondition |-> data.hitCondition,
                                 logMessage |-> data.logMessage, counter |-> data.counter]
                  IN /\ data.counter <= MaxHits
                     /\ breakpoints' = [breakpoints EXCEPT ![key].advancedData = data]
                     /\ IF Truthy(data.condition)
                        THEN /\ cont' = [cont EXCEPT !.pc = "condition", !.locals = locals]
                             /\ trace' = trace \o <<"evaluate">>
                             /\ UNCHANGED <<ideStopped, stopMark, lastEval>>
                        ELSE Decide(locals, FALSE, trace \o <<"evaluate">>)
             ELSE /\ SendStopped(trace, StopReason(cont.cmd))
                  /\ UNCHANGED <<breakpoints, lastEval>>
    /\ UNCHANGED <<scope, config, phase, terminated, dbgLoc>>
    /\ UNCHANGED bpVars

\* conditionalEvaluator.eval(condition) returns
ConditionResponse ==
    /\ cont.pc = "condition"
    /\ \E conditionResult \in scope.truths : Decide(cont.locals, conditionResult, trace)
    /\ UNCHANGED <<scope, config, phase, terminated, dbgLoc, breakpoints>>
    /\ UNCHANGED bpVars

\* evalLogMessage returns: the log output, then sendRunCommand
LogResponse ==
    /\ cont.pc = "log"
    /\ trace' = trace \o <<"output:log", "rerun">>
    /\ cont' = RunCommand
    /\ UNCHANGED <<scope, config, phase, ideStopped, stopMark, terminated, dbgLoc, lastEval, breakpoints>>
    /\ UNCHANGED bpVars

\* ------------------------------------------------------ setBreakPointsRequest
\* a function without the keys in ks
Without(f, ks) == [k \in DOMAIN f \ ks |-> f[k]]

\* a function with key k set to v
With(f, k, v) == [x \in DOMAIN f \cup {k} |-> IF x = k THEN v ELSE f[x]]

RemoveAt(q, k) == [i \in 1..(Len(q) - 1) |-> IF i < k THEN q[i] ELSE q[i + 1]]

\* position of the oldest command pair in the given stage
FirstIn(stage) ==
    CHOOSE k \in 1..Len(tasks) :
        tasks[k].stage = stage /\ \A h \in 1..(k - 1) : tasks[h].stage # stage

SetStageCount == Cardinality({ k \in 1..Len(tasks) : tasks[k].stage = "set" })

\* the handler is entered: sendBreakpointListCommand is sent
SetBreakPointsRequest ==
    /\ sbp.pc = "idle" /\ ~terminated
    /\ scope.overlap \/ cont.pc = "idle"
    /\ \E filePath \in scope.paths, args \in SeqsUpTo(SourceBreakpoints, scope.bps) :
          /\ dbgNextId + SetStageCount + Len(args) <= scope.ids + 1
          /\ sbp' = [pc |-> "list", filePath |-> filePath, args |-> args,
                     requested |-> Len(args), removing |-> {}, cleared |-> <<>>,
                     before |-> dbgBps, awaited |-> FALSE,
                     lines |-> [i \in 1..Len(args) |-> args[i].line]]
    /\ sbpResponse' = NoResponse
    /\ lastSet' = NoSet
    /\ UNCHANGED <<breakpoints, dbgBps, dbgNextId, tasks, vscodeBreakpoints>>
    /\ UNCHANGED contVars

\* a variant that compares the paths as they are; the property of C11 must
\* tell it from SameFile
SameFileExact(filePath, dbgpBreakpoint) ==
    filePath = ConvertDebuggerPathToClient(dbgpBreakpoint.fileUri)

\* the filter of the clear step: the debuggee's breakpoints of this file
SameFile(filePath, dbgpBreakpoint) ==
    ToLowerCase(filePath) = ToLowerCase(ConvertDebuggerPathToClient(dbgpBreakpoint.fileUri))

\* the registry key the clear step deletes for a debuggee breakpoint
ClearKey(filePath, dbgpBreakpoint) == RegistryKey(ToLowerCase(filePath), dbgpBreakpoint.line)

\* the breakpoint list returns: the file's registry records are deleted and
\* the remove commands are sent. The debuggee answers commands in the order
\* it got them: the set commands sent before the list command have returned.
ListResponse ==
    /\ sbp.pc = "list"
    /\ \A k \in 1..Len(tasks) : tasks[k].stage # "set"
    /\ LET matched == { b \in dbgBps : SameFile(sbp.filePath, b) }
           keys == { ClearKey(sbp.filePath, b) : b \in matched }
       IN /\ breakpoints' = Without(breakpoints, keys)
          /\ sbp' = [sbp EXCEPT !.pc = "remove", !.removing = matched,
                                !.cleared = [k \in keys \cap DOMAIN breakpoints |->
                                                breakpoints[k]]]
    /\ UNCHANGED <<dbgBps, dbgNextId, tasks, vscodeBreakpoints, sbpResponse, lastSet>>
    /\ UNCHANGED contVars

\* sendResponse(response) with the array as it is
Respond(body, awaited) ==
    /\ sbpResponse' = [sent |-> TRUE, filePath |-> sbp.filePath, requested |-> sbp.requested,
                       body |-> body, before |-> sbp.before, awaited |-> awaited,
                       lines |-> sbp.lines]
    /\ sbp' = IdleSbp
    /\ vscodeBreakpoints' = <<>>

\* the remove commands have returned: the set commands are sent; the handler
\* awaits them unless a continuation command is outstanding
RemoveResponse ==
    /\ sbp.pc = "remove"
    /\ dbgBps' = dbgBps \ sbp.removing
    /\ LET awaited == ~IsRunningContinuationCommand
           new == [i \in 1..Len(sbp.args) |->
                     [index |-> i, filePath |-> sbp.filePath, bp |-> sbp.args[i],
                      stage |-> "set", id |-> 0, awaited |-> awaited]]
       IN /\ tasks' = tasks \o new
          /\ IF awaited /\ sbp.args # <<>>
             THEN /\ sbp' = [sbp EXCEPT !.pc = "set", !.removing = {}, !.args = <<>>]
                  /\ vscodeBreakpoints' = <<>>
                  /\ UNCHANGED sbpResponse
             ELSE Respond(<<>>, awaited)
    /\ UNCHANGED <<breakpoints, dbgNextId, lastSet>>
    /\ UNCHANGED contVars

\* a variant that answers when the first awaited pair has ended; the property
\* of C12 must tell it from Settle
SettleFirst(rest, body) ==
    IF sbp.pc = "set"
    THEN Respond(body, TRUE)
    ELSE /\ vscodeBreakpoints' = body
         /\ UNCHANGED <<sbp, sbpResponse>>

\* one command pair has ended with the given array; the awaited request
\* answers when it was its last
Settle(rest, body) ==
    IF sbp.pc = "set" /\ \A k \in 1..Len(rest) : ~rest[k].awaited
    THEN Respond(body, TRUE)
    ELSE /\ vscodeBreakpoints' = body
         /\ UNCHANGED <<sbp, sbpResponse>>

Verified(id, line) == [verified |-> TRUE, id |-> id, line |-> line, message |-> "none"]

\* the entry of the catch block; message names the command that was rejected
Unverified(message) == [verified |-> FALSE, id |-> 0, line |-> 0, message |-> message]

\* the try block around a command pair catches every rejection of the pair
Caught(rejected) == rejected

\* whether the promise of all command pairs is rejected
PromiseRejects(rejected) == rejected /\ ~Caught(rejected)

\* whether promise.catch sends an OutputEvent for a pair that was not awaited
OutputOnFailure(awaited, rejected) == ~awaited /\ PromiseRejects(rejected)

\* what is recorded of a command pair that ended in the catch block
FailedSet(t) ==
    [NoSet EXCEPT !.failed = TRUE, !.awaited = t.awaited,
                  !.output = OutputOnFailure(t.awaited, TRUE)]

\* vscodeBreakpoints[index] = entry, for a request still awaiting
Report(t, entry) ==
    IF t.awaited THEN With(vscodeBreakpoints, t.index, entry) ELSE vscodeBreakpoints

\* sendBreakpointSetCommand returns (or is rejected: ok = FALSE)
TaskSetResponse ==
    /\ \E k \in 1..Len(tasks) : tasks[k].stage = "set"
    /\ LET k == FirstIn("set")
           t == tasks[k]
       IN \E ok \in Outcomes :
            IF ok
            THEN /\ dbgBps' = dbgBps \cup
                        { [id |-> dbgNextId,
                           fileUri |-> DebuggeeFileUri(ConvertClientPathToDebugger(t.filePath)),
                           line |-> DebuggeeLine(t.bp.line)] }
                 /\ dbgNextId' = dbgNextId + 1
                 /\ tasks' = [tasks EXCEPT ![k].stage = "get", ![k].id = dbgNextId]
                 /\ UNCHANGED <<sbp, vscodeBreakpoints, sbpResponse, lastSet>>
            ELSE /\ tasks' = RemoveAt(tasks, k)
                 /\ Settle(RemoveAt(tasks, k), Report(t, Unverified("set")))
                 /\ lastSet' = FailedSet(t)
                 /\ UNCHANGED <<dbgBps, dbgNextId>>
    /\ UNCHANGED breakpoints
    /\ UNCHANGED contVars

\* the registry after lines 177-190 for a breakpoint resolved to `line`
UpsertBreakpoint(registry, filePath, line, vscodeBreakpoint) ==
    LET found == RegistryKey(filePath, line)
    IN IF found \in DOMAIN registry
       THEN [registry EXCEPT ![found].advancedData =
                [@ EXCEPT !.condition = vscodeBreakpoint.condition,
                          !.hitCondition = vscodeBreakpoint.hitCondition,
                          !.logMessage = vscodeBreakpoint.logMessage]]
       ELSE With(registry, RegistryKey(ToLowerCase(filePath), line),
                 [fileUri |-> ConvertClientPathToDebugger(filePath), line |-> line,
                  advancedData |-> [counter |-> 0,
                                    condition |-> vscodeBreakpoint.condition,
                                    hitCondition |-> vscodeBreakpoint.hitCondition,
                                    logMessage |-> vscodeBreakpoint.logMessage]])

\* the record at a location (file, line), if the registry holds one
HasRecordAt(registry, filePath, line) ==
    LET key == RegistryKey(ToLowerCase(filePath), line)
    IN /\ key \in DOMAIN registry
       /\ registry[key].line = line
       /\ ToLowerCase(ConvertDebuggerPathToClient(registry[key].fileUri)) = ToLowerCase(filePath)

\* sendBreakpointGetCommand returns (or is rejected: ok = FALSE)
TaskGetResponse ==
    /\ \E k \in 1..Len(tasks) : tasks[k].stage = "get"
    /\ LET k == FirstIn("get")
           t == tasks[k]
           held == { b \in dbgBps : b.id = t.id }
       IN \E ok \in { h \in Outcomes \cup {held # {}} : h => held # {} } :
            /\ tasks' = RemoveAt(tasks, k)
            /\ IF ok
               THEN LET line == (CHOOSE b \in held : TRUE).line
                        key == RegistryKey(ToLowerCase(t.filePath), line)
                        old == IF RegistryKey(t.filePath, line) \in DOMAIN breakpoints
                               THEN breakpoints ELSE sbp.cleared
                        had == t.awaited /\ HasRecordAt(old, t.filePath, line)
                    IN /\ breakpoints' = UpsertBreakpoint(breakpoints, t.filePath, line, t.bp)
                       /\ lastSet' = [done |-> TRUE, filePath |-> t.filePath, line |-> line,
                                      merged |-> RegistryKey(t.filePath, line) \in DOMAIN breakpoints,
                                      hadBefore |-> had,
                                      counterBefore |->
                                          IF had THEN old[key].advancedData.counter ELSE 0,
                                      counterNow |-> breakpoints'[key].advancedData.counter,
                                      failed |-> FALSE, awaited |-> t.awaited,
                                      output |-> FALSE]
                       /\ Settle(RemoveAt(tasks, k), Report(t, Verified(t.id, line)))
               ELSE /\ Settle(RemoveAt(tasks, k), Report(t, Unverified("get")))
                    /\ lastSet' = FailedSet(t)
                    /\ UNCHANGED breakpoints
    /\ UNCHANGED <<dbgBps, dbgNextId>>
    /\ UNCHANGED contVars

Next ==
    \/ ConfigurationDoneRequest
    \/ FeatureSetResponse
    \/ ContinueRequest
    \/ NextRequest
    \/ StepInRequest
    \/ StepOutRequest
    \/ CommandResponse
    \/ LookupResponse
    \/ ConditionResponse
    \/ LogResponse
    \/ SetBreakPointsRequest
    \/ ListResponse
    \/ RemoveResponse
    \/ TaskSetResponse
    \/ TaskGetResponse

Spec == Init /\ [][Next]_vars

\* ----------------------------- SpecSet: setBreakPointsRequest, one at a time
\* a breakpoint without advanced fields
PlainFields == { a \in AdvancedFields : ~Truthy(a.condition) /\ ~Truthy(a.hitCondition)
                                          /\ a.logMessage = Undefined }

InitSet ==
    /\ scope = [paths |-> ClientPaths, lines |-> RequestLines, overlap |-> FALSE,
                faults |-> TRUE, bps |-> MaxSiblings, ids |-> MaxSetIds,
                advanced |-> PlainFields, truths |-> BOOLEAN]
    /\ config = [stopOnEntry |-> FALSE, useAdvancedBreakpoint |-> TRUE]
    /\ hit = NoHit
    /\ log = NoLog
    /\ inst = NoInst
    /\ Launched

NextSet ==
    \/ SetBreakPointsRequest
    \/ ListResponse
    \/ RemoveResponse
    \/ TaskSetResponse
    \/ TaskGetResponse

SpecSet == InitSet /\ [][NextSet]_vars

\* -------------- SpecSetOverlap: setBreakPointsRequest during a continuation
InitSetOverlap ==
    /\ scope = [paths |-> { <<"a", "1">> }, lines |-> RequestLines, overlap |-> TRUE,
                faults |-> TRUE, bps |-> MaxSiblings, ids |-> MaxSetIds,
                advanced |-> PlainFields, truths |-> BOOLEAN]
    /\ config = [stopOnEntry |-> FALSE, useAdvancedBreakpoint |-> FALSE]
    /\ hit = NoHit
    /\ log = NoLog
    /\ inst = NoInst
    /\ Launched

NextSetOverlap ==
    \/ ConfigurationDoneRequest
    \/ FeatureSetResponse
    \/ ContinueRequest
    \/ CommandResponse
    \/ SetBreakPointsRequest
    \/ ListResponse
    \/ RemoveResponse
    \/ TaskSetResponse
    \/ TaskGetResponse

SpecSetOverlap == InitSetOverlap /\ [][NextSetOverlap]_vars

\* ----------------------------------- setBreakPointsRequest racing a breakpoint
\* The IDE sets breakpoints of one file while a run command is outstanding and
\* the debuggee breaks.  Every breakpoint of the scenario has the condition c
\* and nothing else, and c is false in the debuggee throughout.

MaxRaceIds == 2

ConditionalFields == { a \in AdvancedFields : Truthy(a.condition)
                                                /\ a.hitCondition = Undefined
                                                /\ a.logMessage = Undefined }

InitRace ==
    /\ scope = [paths |-> { <<"a", "1">> }, lines |-> RequestLines, overlap |-> TRUE,
                faults |-> FALSE, bps |-> MaxBps, ids |-> MaxRaceIds,
                advanced |-> ConditionalFields, truths |-> {FALSE}]
    /\ config = [stopOnEntry |-> FALSE, useAdvancedBreakpoint |-> TRUE]
    /\ hit = NoHit
    /\ log = NoLog
    /\ inst = NoInst
    /\ Launched

NextRace ==
    \/ ConfigurationDoneRequest
    \/ FeatureSetResponse
    \/ ContinueRequest
    \/ CommandResponse
    \/ LookupResponse
    \/ ConditionResponse
    \/ SetBreakPointsRequest
    \/ ListResponse
    \/ RemoveResponse
    \/ TaskSetResponse
    \/ TaskGetResponse

SpecRace == InitRace /\ [][NextRace]_vars

\* ------------------------------------------------ the auto-continue loop ends
\* One file, requests one at a time, every command answered.  The debuggee
\* makes progress: it breaks at a registered breakpoint only while that
\* breakpoint has been evaluated fewer than MaxHits times, so a chain of runs
\* re-issued by the adapter has finitely many breaks.

InitLive ==
    /\ scope = [paths |-> { <<"a", "1">> }, lines |-> RequestLines, overlap |-> FALSE,
                faults |-> FALSE, bps |-> MaxBps, ids |-> MaxBpId,
                advanced |-> AdvancedFields, truths |-> BOOLEAN]
    /\ config \in [stopOnEntry : BOOLEAN, useAdvancedBreakpoint : {TRUE}]
    /\ hit = NoHit
    /\ log = NoLog
    /\ inst = NoInst
    /\ Launched

\* the breakpoint about to be looked up can still be evaluated
WithinProgress ==
    (cont.pc = "lookup" /\ CurrentKey(dbgLoc) \in DOMAIN breakpoints) =>
       breakpoints[CurrentKey(dbgLoc)].advancedData.counter < MaxHits

\* the continuation command returns, the debuggee making progress
LiveCommandResponse == CommandResponse /\ WithinProgress'

NextLive ==
    \/ ConfigurationDoneRequest
    \/ FeatureSetResponse
    \/ ContinueRequest
    \/ NextRequest
    \/ LiveCommandResponse
    \/ LookupResponse
    \/ ConditionResponse
    \/ LogResponse
    \/ SetBreakPointsRequest
    \/ ListResponse
    \/ RemoveResponse
    \/ TaskSetResponse
    \/ TaskGetResponse

\* every command sent to the debuggee is answered
Answered ==
    /\ WF_vars(FeatureSetResponse)
    /\ WF_vars(LiveCommandResponse)
    /\ WF_vars(LookupResponse)
    /\ WF_vars(ConditionResponse)
    /\ WF_vars(LogResponse)

SpecLive == InitLive /\ [][NextLive]_vars /\ Answered

\* ------------------------------------------------ variable projection layer
NoFrame == [fileUri |-> <<>>, line |-> 0, level |-> 0]

NoContext == [name |-> <<>>, level |-> 0]

NoProperty == [name |-> <<>>, fullName |-> <<>>, type |-> "undefined", isIndex |-> FALSE,
               index |-> 0, isArray |-> FALSE, maxIndex |-> 0]

NoArgs == [variablesReference |-> 0, filter |-> "none", start |-> 0, count |-> 0,
           stale |-> FALSE]

NamedProperty(name, fullName, type) ==
    [NoProperty EXCEPT !.name = name, !.fullName = fullName, !.type = type]

IndexedProperty(parent, i, type) ==
    [NoProperty EXCEPT !.name = <<"[">> \o Decimal(i) \o <<"]">>,
                       !.fullName = parent \o <<"[">> \o Decimal(i) \o <<"]">>,
                       !.type = type, !.isIndex = TRUE, !.index = i]

\* the debuggee's variables: a string and an array in Local, an object in Global
TheArray ==
    [NamedProperty(<<"arr">>, <<"arr">>, "object") EXCEPT !.isArray = TRUE,
                                                          !.maxIndex = ArrayLen]

\* what context_get returns for a context
ContextProperties(context) ==
    IF context.name = <<"Local">>
    THEN << NamedProperty(<<"s">>, <<"s">>, "string"), TheArray >>
    ELSE << NamedProperty(<<"obj">>, <<"obj">>, "object") >>

\* the children property_get returns for an object property
Children(objectProperty) ==
    IF objectProperty.fullName = <<"arr">>
    THEN [i \in 1..ArrayLen |-> IndexedProperty(<<"arr">>, i, "integer")]
         \o << NamedProperty(<<"base">>, <<"arr", ".", "base">>, "object") >>
    ELSE IF objectProperty.fullName = <<"obj">>
    THEN << NamedProperty(<<"inner">>, <<"obj", ".", "inner">>, "object"),
            NamedProperty(<<"n">>, <<"obj", ".", "n">>, "integer"),
            IndexedProperty(<<"obj">>, 1, "object") >>
    ELSE <<>>

\* the stack the debuggee reports while in break at loc
StackOf(loc, depth) ==
    [i \in 1..depth |-> [fileUri |-> loc.fileUri, line |-> loc.line, level |-> i - 1]]

\* what context_names returns for a frame
ContextsOf(stackFrame) ==
    << [name |-> <<"Local">>, level |-> stackFrame.level],
       [name |-> <<"Global">>, level |-> stackFrame.level] >>

\* a variant that leaves the counter where it is; the property of C8 must tell
\* it from PostIncrement
PostIncrementStuck(counter) == counter

\* counter++ : the counter after a handle was taken from it
PostIncrement(counter) == counter + 1

\* the start and count of the indexed requests a client makes
Windows == { [start |-> 0, count |-> 1], [start |-> 100, count |-> 50] }

\* a variant whose window starts one element early; the property of C10 must
\* tell it from FilteredOut
FilteredOutEarly(property, args) ==
    IF args.filter = "named" THEN property.isIndex
    ELSE IF args.filter = "indexed"
    THEN \/ ~property.isIndex
         \/ ~(args.start <= property.index /\ property.index <= args.start + args.count)
    ELSE FALSE

\* whether the for loop of variablesRequest skips the property
FilteredOut(property, args) ==
    IF args.filter = "named" THEN property.isIndex
    ELSE IF args.filter = "indexed"
    THEN \/ ~property.isIndex
         \/ ~(args.start + 1 <= property.index /\ property.index <= args.start + args.count)
    ELSE FALSE

\* a variant that takes a handle for every property; the property of C9 must
\* tell it from VariablesReferenceFor
VariablesReferenceForAny(property, counter) == counter

\* the handle variablesRequest reports for a property, given the counter
VariablesReferenceFor(property, counter) ==
    IF property.type = "object" THEN counter ELSE 0

\* the DebugProtocol.Variable pushed for a property
VariableOf(property, variablesReference) ==
    LET paged == property.type = "object" /\ property.isArray
                 /\ PageThreshold < property.maxIndex
    IN [name |-> IF property.isIndex THEN Decimal(property.index) ELSE property.name,
        type |-> property.type,
        variablesReference |-> variablesReference,
        indexedVariables |-> IF paged THEN property.maxIndex ELSE 0,
        namedVariables |-> IF paged THEN 1 ELSE 0]

\* handles taken from the counter for n things, one after the other
RECURSIVE Handles(_, _)
Handles(counter, n) ==
    IF n = 0 THEN <<>> ELSE <<counter>> \o Handles(PostIncrement(counter), n - 1)

\* the counter after n handles were taken
RECURSIVE CounterAfter(_, _)
CounterAfter(counter, n) ==
    IF n = 0 THEN counter ELSE CounterAfter(PostIncrement(counter), n - 1)

\* a table with things[i] set under handles[i], in order
RECURSIVE SetAll(_, _, _)
SetAll(table, handles, things) ==
    IF handles = <<>> THEN table
    ELSE SetAll(With(table, Head(handles), Head(things)), Tail(handles), Tail(things))

\* the for loop of variablesRequest over the fetched properties: the
\* variables pushed, the counter, the object-property table and the handles
\* issued. The properties the filter keeps are pushed in order; those given a
\* handle take the counter's successive values.
Project(properties, args, counter, table) ==
    LET Kept(p) == ~FilteredOut(p, args)
        kept == SelectSeq(properties, Kept)
        Handled(j) == VariablesReferenceFor(kept[j], 1) # 0
        handled == SelectSeq([j \in 1..Len(kept) |-> j], Handled)
        refs == [k \in 1..Len(handled) |->
                    VariablesReferenceFor(kept[handled[k]], CounterAfter(counter, k - 1))]
        refOf(j) == IF Handled(j)
                    THEN refs[CHOOSE k \in 1..Len(handled) : handled[k] = j]
                    ELSE 0
    IN [variables |-> [j \in 1..Len(kept) |-> VariableOf(kept[j], refOf(j))],
        counter |-> CounterAfter(counter, Len(handled)),
        table |-> SetAll(table, refs, [k \in 1..Len(handled) |-> kept[handled[k]]]),
        refs |-> refs]

\* how many projection requests can await the debuggee at once
Inflight == IF scope.overlap THEN MaxInflight ELSE 1

NoPending == [kind |-> "none", frame |-> NoFrame, source |-> "none", context |-> NoContext,
              property |-> NoProperty, args |-> NoArgs]

projOther == <<scope, config, phase, ideStopped, terminated, breakpoints, dbgBps, dbgNextId,
               dbgLoc, cont, trace, lastEval, sbp, tasks, vscodeBreakpoints, sbpResponse,
               lastSet, stopMark, hit, log, inst>>

\* stackTraceRequest is entered: sendStackGetCommand is sent
StackTraceRequest ==
    /\ Len(pending) < Inflight /\ ~terminated
    /\ scope.overlap \/ cont.pc = "idle"
    /\ pending' = Append(pending, [NoPending EXCEPT !.kind = "stackTrace"])
    /\ lastScopes' = NoScopes
    /\ lastVariables' = NoVariables
    /\ UNCHANGED <<stackFrameIdCounter, stackFrames, variableReferenceCounter, contexts,
                   objectProperties, issued>>
    /\ UNCHANGED projOther

\* the stack returns (or the command is rejected): one id per frame
StackTraceResponse ==
    /\ pending # <<>> /\ Head(pending).kind = "stackTrace"
    /\ pending' = Tail(pending)
    /\ \E depth \in 0..MaxDepth :
          LET frames == StackOf(dbgLoc, depth)
              ids == Handles(stackFrameIdCounter, depth)
          IN /\ depth > 0 => dbgLoc # NoLoc
             /\ depth = 0 => (dbgLoc = NoLoc \/ FALSE \in Outcomes)
             /\ stackFrameIdCounter + depth - 1 <= MaxFrameId
             /\ stackFrameIdCounter' = CounterAfter(stackFrameIdCounter, depth)
             /\ stackFrames' = SetAll(stackFrames, ids, frames)
             /\ issued' = [issued EXCEPT !.frames = @ \o ids]
    /\ UNCHANGED <<variableReferenceCounter, contexts, objectProperties, lastScopes,
                   lastVariables>>
    /\ UNCHANGED projOther

\* scopesRequest is entered: an unknown frame id throws, a known one sends
\* sendContextNamesCommand
ScopesRequest ==
    /\ Len(pending) < Inflight /\ ~terminated
    /\ scope.overlap \/ cont.pc = "idle"
    /\ \E frameId \in 1..MaxFrameId :
          LET known == frameId \in DOMAIN stackFrames
          IN /\ lastScopes' = [done |-> TRUE, frameId |-> frameId, ok |-> known,
                               stale |-> frameId < stopMark.frames]
             /\ pending' = IF known
                           THEN Append(pending, [NoPending EXCEPT !.kind = "scopes",
                                                     !.frame = stackFrames[frameId]])
                           ELSE pending
    /\ lastVariables' = NoVariables
    /\ UNCHANGED <<stackFrameIdCounter, stackFrames, variableReferenceCounter, contexts,
                   objectProperties, issued>>
    /\ UNCHANGED projOther

\* the context names return: one variable reference per context
ScopesResponse ==
    /\ pending # <<>> /\ Head(pending).kind = "scopes"
    /\ pending' = Tail(pending)
    /\ LET cs == ContextsOf(Head(pending).frame)
           refs == Handles(variableReferenceCounter, Len(cs))
       IN /\ variableReferenceCounter + Len(cs) - 1 <= MaxRef
          /\ variableReferenceCounter' = CounterAfter(variableReferenceCounter, Len(cs))
          /\ contexts' = SetAll(contexts, refs, cs)
          /\ issued' = [issued EXCEPT !.refs = @ \o refs]
    /\ UNCHANGED <<stackFrameIdCounter, stackFrames, objectProperties, lastScopes,
                   lastVariables>>
    /\ UNCHANGED projOther

\* this.contexts.get(variablesReference), undefined read as no context
ContextAt(variablesReference) ==
    IF variablesReference \in DOMAIN contexts THEN contexts[variablesReference]
    ELSE NoContext

\* this.objectProperties.get(variablesReference), undefined read as no property
PropertyAt(variablesReference) ==
    IF variablesReference \in DOMAIN objectProperties
    THEN objectProperties[variablesReference]
    ELSE NoProperty

\* a variant that takes every reference that is no object property for a
\* context; the property of C13 must tell it from PropertiesSource
PropertiesSourceLoose(variablesReference) ==
    IF variablesReference \in DOMAIN objectProperties THEN "object" ELSE "context"

\* where variablesRequest fetches the properties of a reference from
PropertiesSource(variablesReference) ==
    IF variablesReference \in DOMAIN contexts THEN "context"
    ELSE IF variablesReference \in DOMAIN objectProperties THEN "object"
    ELSE "none"

\* variablesRequest is entered: a context or an object property is fetched,
\* any other reference goes on with no properties
VariablesRequest ==
    /\ Len(pending) < Inflight /\ ~terminated
    /\ scope.overlap \/ cont.pc = "idle"
    /\ \E ref \in 0..MaxRef, filter \in {"none", "named", "indexed"}, window \in Windows :
          LET args == [variablesReference |-> ref, filter |-> filter,
                       start |-> window.start, count |-> window.count,
                       stale |-> ref < stopMark.refs]
              source == PropertiesSource(ref)
          IN /\ filter # "indexed" => window.start = 0
             /\ IF source # "none"
                THEN /\ pending' = Append(pending,
                            [NoPending EXCEPT !.kind = "variables", !.source = source,
                                              !.context = IF source = "context"
                                                          THEN ContextAt(ref) ELSE NoContext,
                                              !.property = IF source = "object"
                                                           THEN PropertyAt(ref) ELSE NoProperty,
                                              !.args = args])
                     /\ lastVariables' = NoVariables
                ELSE /\ lastVariables' = [done |-> TRUE, args |-> args, source |-> "none",
                                          context |-> NoContext, property |-> NoProperty,
                                          variables |-> <<>>]
                     /\ UNCHANGED pending
    /\ lastScopes' = NoScopes
    /\ UNCHANGED <<stackFrameIdCounter, stackFrames, variableReferenceCounter, contexts,
                   objectProperties, issued>>
    /\ UNCHANGED projOther

\* the properties return: the for loop and the response
VariablesResponse ==
    /\ pending # <<>> /\ Head(pending).kind = "variables"
    /\ pending' = Tail(pending)
    /\ LET p == Head(pending)
           properties == IF p.source = "context" THEN ContextProperties(p.context)
                         ELSE Children(p.property)
           out == Project(properties, p.args, variableReferenceCounter, objectProperties)
       IN /\ variableReferenceCounter + Len(out.refs) - 1 <= MaxRef
          /\ variableReferenceCounter' = out.counter
          /\ objectProperties' = out.table
          /\ issued' = [issued EXCEPT !.refs = @ \o out.refs]
          /\ lastVariables' = [done |-> TRUE, args |-> p.args, source |-> p.source,
                               context |-> p.context, property |-> p.property,
                               variables |-> out.variables]
    /\ UNCHANGED <<stackFrameIdCounter, stackFrames, contexts, lastScopes>>
    /\ UNCHANGED projOther

InitVars ==
    /\ scope = [paths |-> { <<"A">> }, lines |-> {2}, overlap |-> FALSE, faults |-> FALSE,
                bps |-> 0, ids |-> 0, advanced |-> {}, truths |-> BOOLEAN]
    /\ config = [stopOnEntry |-> TRUE, useAdvancedBreakpoint |-> FALSE]
    /\ hit = NoHit
    /\ log = NoLog
    /\ inst = NoInst
    /\ Launched

NextVars ==
    \/ ConfigurationDoneRequest
    \/ FeatureSetResponse
    \/ NextRequest
    \/ CommandResponse
    \/ StackTraceRequest
    \/ StackTraceResponse
    \/ ScopesRequest
    \/ ScopesResponse
    \/ VariablesRequest
    \/ VariablesResponse

SpecVars == InitVars /\ [][NextVars]_vars

\* the projection requests overlapping each other and the entry command
InitVarsOverlap ==
    /\ scope = [paths |-> { <<"A">> }, lines |-> {2}, overlap |-> TRUE, faults |-> FALSE,
                bps |-> 0, ids |-> 0, advanced |-> {}, truths |-> BOOLEAN]
    /\ config = [stopOnEntry |-> TRUE, useAdvancedBreakpoint |-> FALSE]
    /\ hit = NoHit
    /\ log = NoLog
    /\ inst = NoInst
    /\ Launched

NextVarsOverlap ==
    \/ ConfigurationDoneRequest
    \/ FeatureSetResponse
    \/ CommandResponse
    \/ StackTraceRequest
    \/ StackTraceResponse
    \/ ScopesRequest
    \/ ScopesResponse
    \/ VariablesRequest
    \/ VariablesResponse

SpecVarsOverlap == InitVarsOverlap /\ [][NextVarsOverlap]_vars

\* ------------------------------------------- SpecHit: the hit condition alone
\* characters hit-condition strings are drawn from
HitAlphabet == {"<", ">", "=", "%", " ", "0", "1", "2", "3", "x"}

InitHit ==
    /\ scope = [paths |-> {}, lines |-> {}, overlap |-> FALSE, faults |-> FALSE,
                bps |-> 0, ids |-> 0, advanced |-> {}, truths |-> BOOLEAN]
    /\ config = [stopOnEntry |-> FALSE, useAdvancedBreakpoint |-> TRUE]
    /\ hit \in [hitCondition : SeqsUpTo(HitAlphabet, MaxHitLen) \cup {Undefined},
                 counter : {0}, result : {FALSE}, evaluated : {FALSE}]
    /\ log = NoLog
    /\ inst = NoInst
    /\ Launched

\* one evaluation of a breakpoint carrying hit.hitCondition: counter++, then
\* the hit condition on the new counter
HitEvaluate ==
    /\ hit.counter < MaxCounter
    /\ hit' = [hit EXCEPT !.counter = @ + 1,
                          !.result = HitConditionResult(hit.counter + 1, hit.hitCondition),
                          !.evaluated = TRUE]
    /\ UNCHANGED <<scope, config, phase, ideStopped, terminated, breakpoints, dbgBps,
                   dbgNextId, dbgLoc, cont, trace, lastEval, sbp, tasks, vscodeBreakpoints,
                   sbpResponse, lastSet, projVars, stopMark, log, inst>>

NextHit == HitEvaluate

SpecHit == InitHit /\ [][NextHit]_vars

\* the number a digit string denotes, read in decimal
DecimalValue(ds) == RadixValue(ds, 10)

\* the hit-condition result as C3 states it
HitReference(counter, hitCondition) ==
    LET m == HitMatch(hitCondition)
        n == DecimalValue(m.number)
    IN IF hitCondition = Undefined \/ ~m.matched THEN FALSE
       ELSE IF m.operator = <<"%">> THEN n # 0 /\ counter % n = 0
       ELSE IF m.operator = <<"<", "=">> THEN counter <= n
       ELSE IF m.operator = <<"<">> THEN counter < n
       ELSE IF m.operator = <<">">> THEN counter > n
       ELSE IF m.operator \in { <<"=", "=">>, <<"=">> } THEN counter = n
       ELSE counter >= n

\* C3: for every counter value and every hit-condition string the result
\* computed in checkAdvancedBreakpoint equals the reference: '%N' is
\* (counter mod N = 0), an explicit operator is (counter operator N) with '='
\* read as '==', a bare number N is '>=N', and a string outside the grammar
\* gives false.
C3_HitConditionMatchesReference ==
    hit.evaluated => hit.result = HitReference(hit.counter, hit.hitCondition)

\* ------------------------------------------------------- the contract claims
Range(s) == { s[i] : i \in DOMAIN s }

Last(s) == s[Len(s)]

\* the stop notifications a flow can end with
StopEvents == { "stop:step", "stop:breakpoint", "stop:conditional breakpoint" }

\* an evaluated breakpoint with no condition, no hit condition, no log message
IsPlain(locals) ==
    /\ ~Truthy(locals.condition)
    /\ ~Truthy(locals.hitCondition)
    /\ locals.logMessage = Undefined

\* C1: when a breakpoint is set again at a location (file, line) that already
\* had a record, setBreakPointsRequest leaves the record's hit counter as it
\* was; a breakpoint added at a location without a record starts at 0.
C1_CounterKeptOnReset ==
    lastSet.done =>
        /\ lastSet.hadBefore => lastSet.counterNow = lastSet.counterBefore
        /\ ~lastSet.hadBefore => lastSet.counterNow = 0

\* C2: a break at a registered breakpoint with no condition, no hit condition
\* and no log message ends in a stop notification and no run command is
\* re-issued; and a flow that saw status break and has ended has ended in a
\* stop notification, or else it has re-issued run as its last step.
C2_PlainBreakpointHalts ==
    /\ (lastEval.evaluated /\ IsPlain(lastEval.locals)) =>
          /\ lastEval.action = "halt"
          /\ cont.pc = "idle" /\ ideStopped
          /\ Last(trace) = "stop:conditional breakpoint"
          /\ "rerun" \notin Range(trace)
    /\ "break" \in Range(trace) =>
          \/ cont.pc \in {"lookup", "condition", "log"}
          \/ cont.pc = "idle" /\ ideStopped /\ Last(trace) \in StopEvents
          \/ /\ cont = RunCommand /\ Last(trace) = "rerun"
             /\ lastEval.evaluated /\ ~IsPlain(lastEval.locals)

C2_PlainBreakpointHit ==
    /\ lastEval.evaluated /\ IsPlain(lastEval.locals)
    /\ trace[1] = "continue" /\ "break" \in Range(trace)
    /\ ideStopped

\* the combined match as C4 states it
MatchReference(locals, conditionResult, hitConditionResult) ==
    LET c == Truthy(locals.condition)
        h == Truthy(locals.hitCondition)
    IN CASE c /\ h -> conditionResult /\ hitConditionResult
         [] c /\ ~h -> conditionResult
         [] ~c /\ h -> hitConditionResult
         [] OTHER -> TRUE

\* C4: the combined match of an evaluated breakpoint is the conjunction of the
\* two results when both a condition and a hit condition are present, the
\* present one's result when one is, true when none is; and an evaluation
\* without a match neither halts nor logs: it re-issues run.
C4_CombinedMatch ==
    lastEval.evaluated =>
        /\ lastEval.matchCondition =
              MatchReference(lastEval.locals, lastEval.conditionResult,
                             lastEval.hitConditionResult)
        /\ lastEval.action \in {"halt", "log"} => lastEval.matchCondition
        /\ ~lastEval.matchCondition =>
              /\ ~ideStopped /\ cont = RunCommand
              /\ Last(trace) = "rerun" /\ "output:log" \notin Range(trace)

C4_HitConditionAloneHalts ==
    /\ lastEval.evaluated
    /\ ~Truthy(lastEval.locals.condition) /\ Truthy(lastEval.locals.hitCondition)
    /\ lastEval.locals.logMessage = Undefined
    /\ lastEval.hitConditionResult
    /\ ideStopped

\* C5: evaluating a breakpoint that carries a log message emits no stop
\* notification; on a match the log output is emitted and then run is issued,
\* without a match run is issued and nothing is output.
C5_LogPointsNeverStop ==
    (lastEval.evaluated /\ lastEval.locals.logMessage # Undefined) =>
        /\ ~ideStopped
        /\ Range(trace) \cap StopEvents = {}
        /\ lastEval.matchCondition =>
              \/ cont.pc = "log" /\ "output:log" \notin Range(trace)
              \/ /\ cont = RunCommand
                 /\ Len(trace) >= 2
                 /\ trace[Len(trace) - 1] = "output:log" /\ Last(trace) = "rerun"
        /\ ~lastEval.matchCondition =>
              /\ cont = RunCommand
              /\ Last(trace) = "rerun" /\ "output:log" \notin Range(trace)

C5_LogEmittedThenRun ==
    /\ lastEval.evaluated /\ lastEval.locals.logMessage # Undefined
    /\ lastEval.matchCondition
    /\ "output:log" \in Range(trace) /\ Last(trace) = "rerun"

\* the flow under way, or just ended, is configurationDoneRequest's and has
\* seen status break
EntryBreak ==
    /\ trace # <<>> /\ trace[1] = "configurationDone"
    /\ "break" \in Range(trace)

\* C6 as stated: with stopOnEntry and useAdvancedBreakpoint, configurationDone
\* issues step_into and on break the breakpoint lookup comes before any stop
\* notification.
C6_EntryLookupBeforeStop ==
    (EntryBreak /\ config.stopOnEntry /\ config.useAdvancedBreakpoint) =>
        /\ trace[2] = "step_into"
        /\ Range(trace) \cap StopEvents # {} => "stack_get" \in Range(trace)

\* C6: configurationDone issues step_into when stopOnEntry is set and run
\* otherwise; on break the breakpoint at the landing line is looked up (and
\* then evaluated before any stop notification) exactly when
\* useAdvancedBreakpoint is set and stopOnEntry is not; with stopOnEntry the
\* break is answered at once by a stop notification with reason step.
C6_EntryLookupOnlyWithoutStopOnEntry ==
    EntryBreak =>
        /\ trace[2] = (IF config.stopOnEntry THEN "step_into" ELSE "run")
        /\ "stack_get" \in Range(trace)
              <=> (config.useAdvancedBreakpoint /\ ~config.stopOnEntry)
        /\ config.stopOnEntry =>
              trace = <<"configurationDone", "step_into", "break", "stop:step">>
        /\ \A i \in DOMAIN trace : trace[i] \in StopEvents => i = Len(trace)

C6_StopOnEntryStops ==
    /\ config.stopOnEntry /\ config.useAdvancedBreakpoint
    /\ trace = <<"configurationDone", "step_into", "break", "stop:step">>
    /\ ideStopped

\* C7: a handle issued before the last stop notification is invalid: a scopes
\* request with such a frame id fails as unknown and a variables request with
\* such a reference returns no variables.
C7_StaleHandlesInvalid ==
    /\ (lastScopes.done /\ lastScopes.stale) => ~lastScopes.ok
    /\ (lastVariables.done /\ lastVariables.args.stale) => lastVariables.variables = <<>>

StrictlyIncreasing(s) == \A i, j \in DOMAIN s : i < j => s[i] < s[j]

\* C8: the stack-frame ids issued are strictly increasing, the variable
\* references issued are strictly increasing, and no number is a key of both
\* the context table and the object-property table.
C8_HandlesNeverReused ==
    /\ StrictlyIncreasing(issued.frames)
    /\ StrictlyIncreasing(issued.refs)
    /\ DOMAIN contexts \cap DOMAIN objectProperties = {}

C8_HandlesOfEveryKindIssued ==
    /\ Len(issued.frames) >= 2
    /\ Len(issued.refs) >= 3
    /\ contexts # <<>> /\ objectProperties # <<>>
    /\ Len(pending) = MaxInflight

\* C9: variablesRequest reports variablesReference 0 for every property that
\* is not an object and the object-property table holds objects only; 0 is
\* no key of the context table or of the object-property table and was never
\* issued.
C9_PrimitivesGetNoHandle ==
    /\ lastVariables.done =>
          \A i \in DOMAIN lastVariables.variables :
              lastVariables.variables[i].type # "object"
                  => lastVariables.variables[i].variablesReference = 0
    /\ \A r \in DOMAIN objectProperties : objectProperties[r].type = "object"
    /\ 0 \notin DOMAIN contexts \cup DOMAIN objectProperties \cup Range(issued.refs)

C9_MixedPropertiesProjected ==
    /\ lastVariables.done
    /\ \E i, j \in DOMAIN lastVariables.variables :
          /\ lastVariables.variables[i].type = "string"
          /\ lastVariables.variables[i].variablesReference = 0
          /\ lastVariables.variables[j].type = "object"
          /\ lastVariables.variables[j].variablesReference \in DOMAIN objectProperties

\* the properties the last variables request fetched
FetchedProperties ==
    IF lastVariables.source = "context" THEN ContextProperties(lastVariables.context)
    ELSE IF lastVariables.source = "object" THEN Children(lastVariables.property)
    ELSE <<>>

\* the names a response shows for a sequence of properties
NamesOf(properties) ==
    [i \in DOMAIN properties |->
        IF properties[i].isIndex THEN Decimal(properties[i].index) ELSE properties[i].name]

\* C10: with filter indexed, start s and count c the response holds exactly
\* the indexed properties with s+1 <= index <= s+c, in order, and no named
\* one (start 100 and count 50 on the array: the indices 101..150); with
\* filter named it holds exactly the properties that are not indexed.
C10_FilterWindow ==
    lastVariables.done =>
        LET args == lastVariables.args
            InWindow(p) == p.isIndex /\ args.start + 1 <= p.index
                                     /\ p.index <= args.start + args.count
            Named(p) == ~p.isIndex
            names == [i \in DOMAIN lastVariables.variables |->
                         lastVariables.variables[i].name]
        IN /\ args.filter = "indexed" =>
                 names = NamesOf(SelectSeq(FetchedProperties, InWindow))
           /\ args.filter = "named" =>
                 names = NamesOf(SelectSeq(FetchedProperties, Named))
           /\ (args.filter = "indexed" /\ args.start = 100 /\ args.count = 50
                 /\ lastVariables.property = TheArray) =>
                 names = [k \in 1..50 |-> Decimal(100 + k)]

C10_LastPageOfTheArray ==
    /\ lastVariables.done
    /\ lastVariables.args.filter = "indexed"
    /\ lastVariables.args.start = 100 /\ lastVariables.args.count = 50
    /\ lastVariables.property = TheArray
    /\ Len(lastVariables.variables) = 50

\* the last setBreakpoints request has answered and all its commands returned
SetComplete == sbpResponse.sent /\ sbp.pc = "idle" /\ tasks = <<>>

\* the debuggee's breakpoints, out of bs, that lie in the client's file
OfFile(bs, filePath) ==
    { b \in bs : b.fileUri = DebuggeeFileUri(ConvertClientPathToDebugger(filePath)) }

LinesOf(bs) == { b.line : b \in bs }

\* the lines and ids of the verified entries of a response body
VerifiedLines(body) == { body[i].line : i \in { j \in DOMAIN body : body[j].verified } }

VerifiedIds(body) == { body[i].id : i \in { j \in DOMAIN body : body[j].verified } }

\* C11: once a setBreakpoints request for a file has completed, none of the
\* breakpoints the debuggee held for that file before is left, the
\* breakpoints of the other files are the same as before, and the file's
\* breakpoints are the ones just applied: they include every verified entry
\* of the response, are no more than requested, and are exactly the verified
\* entries (by id and line) when every entry is verified.
C11_ListIsWhatWasApplied ==
    SetComplete =>
        LET mine == OfFile(dbgBps, sbpResponse.filePath)
            body == sbpResponse.body
        IN /\ mine \cap sbpResponse.before = {}
           /\ dbgBps \ mine = sbpResponse.before \ OfFile(sbpResponse.before, sbpResponse.filePath)
           /\ VerifiedLines(body) \subseteq LinesOf(mine)
           /\ VerifiedIds(body) \subseteq { b.id : b \in mine }
           /\ Cardinality(mine) <= sbpResponse.requested
           /\ (\A i \in DOMAIN body : body[i].verified) =>
                 /\ LinesOf(mine) = VerifiedLines(body)
                 /\ { b.id : b \in mine } = VerifiedIds(body)

C11_FileReconfigured ==
    /\ SetComplete
    /\ OfFile(sbpResponse.before, sbpResponse.filePath) # {}
    /\ sbpResponse.before \ OfFile(sbpResponse.before, sbpResponse.filePath) # {}
    /\ Len(sbpResponse.body) = 2
    /\ \A i \in DOMAIN sbpResponse.body : sbpResponse.body[i].verified

\* C12 as stated: the response holds one entry per requested breakpoint, at
\* the request's index, verified with id and line when its set command
\* succeeded and unverified with the failure message when its set command
\* failed.
C12_EntryPerRequestedBySet ==
    sbpResponse.sent =>
        /\ DOMAIN sbpResponse.body = 1..sbpResponse.requested
        /\ \A i \in DOMAIN sbpResponse.body :
              LET entry == sbpResponse.body[i]
              IN IF entry.verified
                 THEN entry.id > 0 /\ entry.line = DebuggeeLine(sbpResponse.lines[i])
                 ELSE entry.message = "set"

\* C12: a request whose set commands were awaited answers with one entry per
\* requested breakpoint, at the request's index: verified, with the id the
\* debuggee gave and the line it resolved for that breakpoint, when both its
\* set and its get command succeeded, unverified with the failure message
\* when either was rejected, whatever happened to the other breakpoints of
\* the request. A request whose set commands were not awaited (a continuation
\* command was outstanding) answers with an empty list.
C12_EntryPerRequestedWhenAwaited ==
    sbpResponse.sent =>
        IF sbpResponse.awaited
        THEN /\ DOMAIN sbpResponse.body = 1..sbpResponse.requested
             /\ \A i \in DOMAIN sbpResponse.body :
                   LET entry == sbpResponse.body[i]
                   IN IF entry.verified
                      THEN /\ entry.line = DebuggeeLine(sbpResponse.lines[i])
                           /\ \E b \in OfFile(dbgBps, sbpResponse.filePath) :
                                 b.id = entry.id /\ b.line = entry.line
                           /\ \A j \in DOMAIN sbpResponse.body :
                                 (j # i /\ sbpResponse.body[j].verified)
                                     => sbpResponse.body[j].id # entry.id
                      ELSE entry.message \in {"set", "get"}
        ELSE sbpResponse.body = <<>>

C12_FailureBesideSuccess ==
    /\ sbpResponse.sent /\ sbpResponse.awaited
    /\ sbpResponse.requested = 2
    /\ ~sbpResponse.body[1].verified
    /\ sbpResponse.body[2].verified

\* the handle tables and counters
handleVars == <<stackFrameIdCounter, stackFrames, variableReferenceCounter, contexts,
                objectProperties, issued>>

\* C13: a variables request whose reference is in neither table is answered
\* with an empty list in the same step, with no command sent to the debuggee
\* and the counters and tables as they were; a scopes request with a frame id
\* that is not in the frame table fails, with no command sent and the
\* counters and tables as they were.
C13_UnknownHandles ==
    [][ /\ ( /\ lastVariables'.done /\ lastVariables' # lastVariables
             /\ lastVariables'.args.variablesReference
                   \notin DOMAIN contexts \cup DOMAIN objectProperties )
           => ( /\ lastVariables'.variables = <<>>
                /\ pending' = pending
                /\ handleVars' = handleVars )
        /\ ( /\ lastScopes'.done /\ lastScopes' # lastScopes
             /\ lastScopes'.frameId \notin DOMAIN stackFrames )
           => ( /\ ~lastScopes'.ok
                /\ pending' = pending
                /\ handleVars' = handleVars ) ]_vars

C13_UnknownReferenceAnswered ==
    /\ lastVariables.done
    /\ lastVariables.args.variablesReference > 0
    /\ lastVariables.args.variablesReference
          \notin DOMAIN contexts \cup DOMAIN objectProperties
    /\ contexts # <<>> /\ objectProperties # <<>>
    /\ pending = <<>>

\* the request handlers of lines 233-253
ContinuationRequests == {"continue", "next", "stepIn", "stepOut"}

\* the positions of an entry in the trace of the current command
PositionsOf(e) == { i \in DOMAIN trace : trace[i] = e }

\* C14: a continue, next, stepIn or stepOut request whose command has returned
\* has sent exactly one response, for each status the command reports, and the
\* response comes before every stop or terminated notification of that
\* command; the run the adapter re-issues by itself sends no further response
C14_OneResponseBeforeNotification ==
    /\ (trace # <<>> /\ trace[1] \in ContinuationRequests) =>
          /\ Cardinality(PositionsOf("response")) = 1
          /\ trace[4] \in {"running", "break", "stopped"}
          /\ \A i \in DOMAIN trace :
                trace[i] \in StopEvents \cup {"terminated"} =>
                   \A j \in PositionsOf("response") : j < i
    /\ (trace # <<>> /\ trace[1] = "auto") => PositionsOf("response") = {}

\* C14 happens: a step request answered and then notified of the end of the
\* debuggee
C14_StepAnsweredThenTerminated ==
    /\ trace # <<>>
    /\ trace[1] = "stepOut"
    /\ "response" \in Range(trace)
    /\ Last(trace) = "terminated"

\* C15: a breakpoint command of a setBreakPointsRequest that fails while a
\* continuation command is outstanding is reported as an output event
C15_OverlapFailureReported ==
    (lastSet.failed /\ ~lastSet.awaited) => lastSet.output

\* C16: a stop at a breakpoint without condition, hit condition and log
\* message that a run command reached has the reason 'breakpoint'; a stop
\* after a step command has the reason 'step'; the reason 'conditional
\* breakpoint' is used only for a breakpoint that has a condition or a hit
\* condition
C16_StopReasons ==
    (ideStopped /\ trace # <<>> /\ Last(trace) \in StopEvents) =>
       /\ (trace[2] = "run" /\ lastEval.evaluated
           /\ lastEval.locals.condition = Undefined
           /\ lastEval.locals.hitCondition = Undefined
           /\ lastEval.locals.logMessage = Undefined)
             => Last(trace) = "stop:breakpoint"
       /\ IsStepCommand(trace[2]) => Last(trace) = "stop:step"
       /\ Last(trace) = "stop:conditional breakpoint" =>
             /\ lastEval.evaluated
             /\ \/ lastEval.locals.condition # Undefined
                \/ lastEval.locals.hitCondition # Undefined

\* C17: when a run or step command reports the status stopped, exactly one
\* terminated notification is emitted and it is the last thing the adapter
\* emits: no stop notification comes with it or after it, and no run command
\* is re-issued
C17_TerminatedOnceAndLast ==
    /\ (trace # <<>> /\ "stopped" \in Range(trace)) =>
          /\ terminated
          /\ Cardinality(PositionsOf("terminated")) = 1
          /\ Last(trace) = "terminated"
          /\ Range(trace) \cap StopEvents = {}
          /\ "rerun" \notin Range(trace)
          /\ cont = IdleCont
    /\ terminated => (trace # <<>> /\ "stopped" \in Range(trace))

\* C17 happens: the run the adapter re-issued after a breakpoint that did not
\* match ends the debuggee
C17_RerunEndsDebuggee ==
    /\ terminated
    /\ trace = <<"auto", "run", "stopped", "terminated">>

\* the step request handlers of lines 239-253
StepRequests == {"next", "stepIn", "stepOut"}

\* C18: the step in which the command of a next, stepIn or stepOut request
\* reports break emits the response and the stop with the reason 'step' and
\* nothing else: no stack lookup, no evaluation, no run re-issued, and the
\* registry with its hit counters is left as it was, whatever breakpoint is
\* registered at the landing line
C18_StepBreakStopsDirectly ==
    [][ (/\ cont.pc = "command"
         /\ cont.origin \in StepRequests
         /\ trace' # <<>>
         /\ "break" \in Range(trace')) =>
           /\ trace' = <<cont.origin, cont.cmd, "response", "break", "stop:step">>
           /\ ideStopped'
           /\ cont' = IdleCont
           /\ ~lastEval'.evaluated
           /\ breakpoints' = breakpoints ]_vars

\* C18 happens: a step landed on a line whose registered breakpoint has a
\* condition, and the IDE is stopped there
C18_StepLandsOnConditional ==
    /\ trace # <<>>
    /\ trace[1] \in StepRequests
    /\ Last(trace) = "stop:step"
    /\ CurrentKey(dbgLoc) \in DOMAIN breakpoints
    /\ Truthy(breakpoints[CurrentKey(dbgLoc)].advancedData.condition)

\* ------------------------------------------------------------ evalLogMessage
\* One call of evalLogMessage on a log message drawn from the strings over
\* LogAlphabet, against a debuggee whose property a may be unset.  Each
\* callback of the Promise.all is one step, taken when its fetch returns; the
\* fetches return in any order.

MaxTemplateLen == 6

LogAlphabet == {"{", "}", "\\", "a", "b"}

\* the properties of the debuggee: a is 1 or unset, b is 2
PropertyStores ==
    { (<<"a">> :> va) @@ (<<"b">> :> <<"2">>) : va \in {Undefined, <<"1">>} }

\* session.fetchPrimitiveProperty: the value, or nothing for a name that does
\* not resolve
FetchPrimitiveProperty(store, propertyName) ==
    IF propertyName \in DOMAIN store THEN store[propertyName] ELSE Undefined

\* (?<!\\)c at position i
Unescaped(s, i, c) == s[i] = c /\ (i = 1 \/ s[i - 1] # "\\")

\* the positions where a match that opens at i can close: .+? takes at least
\* one character
ClosingAfter(s, i) == { j \in (i + 2)..Len(s) : Unescaped(s, j, "}") }

\* the first match of the regex at or after position from: <<open, close>>,
\* or <<>> when there is none
FirstMatch(s, from) ==
    LET opens == { i \in from..Len(s) : Unescaped(s, i, "{") /\ ClosingAfter(s, i) # {} }
    IN IF opens = {} THEN <<>>
       ELSE LET i == CHOOSE x \in opens : \A y \in opens : x <= y
                j == CHOOSE x \in ClosingAfter(s, i) : \A y \in ClosingAfter(s, i) : x <= y
            IN <<i, j>>

RECURSIVE MatchAllFrom(_, _)
\* Array.from(logMessage.matchAll(regex), (x) => x[1])
MatchAllFrom(s, from) ==
    LET m == FirstMatch(s, from)
    IN IF m = <<>> THEN <<>>
       ELSE <<SubSeq(s, m[1] + 1, m[2] - 1)>> \o MatchAllFrom(s, m[2] + 1)

\* evaled.replace(new RegExp(regex.source, 'ui'), evaledExpression)
ReplaceFirst(s, replacement) ==
    LET m == FirstMatch(s, 1)
    IN IF m = <<>> THEN s
       ELSE SubSeq(s, 1, m[1] - 1) \o replacement \o SubSeq(s, m[2] + 1, Len(s))

InitLog ==
    /\ scope = [paths |-> {}, lines |-> {}, overlap |-> FALSE, faults |-> FALSE,
                bps |-> 0, ids |-> 0, advanced |-> {}, truths |-> BOOLEAN]
    /\ config = [stopOnEntry |-> FALSE, useAdvancedBreakpoint |-> TRUE]
    /\ hit = NoHit
    /\ log \in [pc : {"called"}, logMessage : SeqsUpTo(LogAlphabet, MaxTemplateLen),
                 store : PropertyStores, names : {<<>>}, waiting : {{}},
                 evaled : {<<>>}, result : {<<>>}]
    /\ inst = NoInst
    /\ Launched

logOther == <<scope, config, phase, ideStopped, terminated, breakpoints, dbgBps,
              dbgNextId, dbgLoc, cont, trace, lastEval, sbp, tasks, vscodeBreakpoints,
              sbpResponse, lastSet, projVars, stopMark, hit, inst>>

\* evalLogMessage up to the await: every fetch is sent
EvalLogMessage ==
    /\ log.pc = "called"
    /\ LET names == MatchAllFrom(log.logMessage, 1)
       IN log' = [log EXCEPT !.pc = "fetching", !.names = names,
                             !.waiting = 1..Len(names), !.evaled = log.logMessage]
    /\ UNCHANGED logOther

\* one fetch returns and its callback runs to the end
FetchReturns ==
    /\ log.pc = "fetching"
    /\ \E i \in log.waiting :
          LET evaledExpression == FetchPrimitiveProperty(log.store, log.names[i])
          IN log' = [log EXCEPT !.waiting = @ \ {i},
                                !.evaled = IF Truthy(evaledExpression)
                                           THEN ReplaceFirst(@, evaledExpression)
                                           ELSE @]
    /\ UNCHANGED logOther

\* every callback has run: evalLogMessage returns
EvalLogMessageReturns ==
    /\ log.pc = "fetching" /\ log.waiting = {}
    /\ log' = [log EXCEPT !.pc = "returned", !.result = log.evaled \o <<"\n">>]
    /\ UNCHANGED logOther

NextLog == EvalLogMessage \/ FetchReturns \/ EvalLogMessageReturns

SpecLog == InitLog /\ [][NextLog]_vars

\* the value the claim substitutes for an expression
SubstituteOf(store, propertyName) ==
    IF FetchPrimitiveProperty(store, propertyName) = Undefined THEN <<>>
    ELSE FetchPrimitiveProperty(store, propertyName)

RECURSIVE RenderFrom(_, _, _)
\* the rendering as C19 states it: each match replaced by the value of its own
\* expression, the rest of the message kept
RenderFrom(s, from, store) ==
    LET m == FirstMatch(s, from)
    IN IF m = <<>> THEN SubSeq(s, from, Len(s))
       ELSE SubSeq(s, from, m[1] - 1)
            \o SubstituteOf(store, SubSeq(s, m[1] + 1, m[2] - 1))
            \o RenderFrom(s, m[2] + 1, store)

\* C19: evalLogMessage returns the log message with every unescaped
\* {expression} replaced by the fetched value of that expression, in whatever
\* order the fetches return, and by the empty string when the expression does
\* not resolve, escaped braces kept, and a newline appended
C19_RenderedByExpression ==
    log.pc = "returned" =>
       log.result = RenderFrom(log.logMessage, 1, log.store) \o <<"\n">>

\* the debuggee holds a breakpoint at the location
DebuggeeHolds(loc) ==
    \E b \in dbgBps : b.fileUri = loc.fileUri /\ b.line = loc.line

\* C20: while setBreakPointsRequest and a continuation interleave, a run that
\* breaks at a line where the debuggee holds a breakpoint with a condition
\* whose result is false emits no stop notification and ends in a re-issued
\* run.  Stated where every breakpoint the IDE sets has the condition and the
\* condition is false.
C20_FalseConditionNeverStops ==
    (/\ scope.truths = {FALSE}
     /\ \A a \in scope.advanced : Truthy(a.condition) /\ a.hitCondition = Undefined
     /\ trace # <<>> /\ trace[2] = "run" /\ "break" \in Range(trace)
     /\ DebuggeeHolds(dbgLoc)) =>
        /\ Range(trace) \cap StopEvents = {}
        /\ cont.pc \in {"lookup", "condition"} \/ Last(trace) = "rerun"

\* a continue or configurationDone request has a command outstanding
ChainStarted ==
    cont.pc \in {"feature_set", "command"} /\ cont.origin \in {"continue", "configurationDone"}

\* the number of runs the adapter has re-issued since the last request's
\* command returned
Reruns == Cardinality(PositionsOf("rerun"))

\* each step of the auto-continue loop that goes on issues one run command
OneRunPerStep ==
    [][ (cont.pc \in {"lookup", "condition", "log"} /\ cont'.pc \notin {"lookup", "condition", "log"}) =>
          \/ ideStopped' /\ cont' = IdleCont /\ Reruns' = Reruns
          \/ /\ ~ideStopped'
             /\ cont'.pc = "command" /\ cont'.cmd = "run"
             /\ Reruns' = Reruns + 1 ]_vars

\* C21 as stated: with finitely many consecutive breaks that end in a log or
\* a continue, every continue request and configurationDone leads to a stop
\* or a terminated notification, and each auto-continue step issues exactly
\* one run command
C21_ChainEndsInNotification ==
    /\ OneRunPerStep
    /\ ChainStarted ~> (ideStopped \/ terminated)

\* C21, amended: the same, unless a command of the chain reports the status
\* running, after which the adapter emits nothing
C21_ChainEndsUnlessRunning ==
    /\ OneRunPerStep
    /\ ChainStarted ~> (ideStopped \/ terminated \/ "running" \in Range(trace))

\* C21 happens: a run the adapter re-issued ended in a stop notification
C21_RerunThenStop ==
    /\ trace # <<>> /\ trace[1] = "auto"
    /\ ideStopped
    /\ Last(trace) \in StopEvents

\* C22: while no setBreakPointsRequest is in progress, every breakpoint the
\* debuggee holds has a registry record at its file and line, every registry
\* record is the record of a breakpoint the debuggee holds, and a breakpoint
\* reported unverified (no sibling at its line being verified) is held
\* neither by the debuggee nor by the registry
C22_RegistryAgreesWithDebuggee ==
    (sbp.pc = "idle" /\ tasks = <<>>) =>
       /\ \A b \in dbgBps : CurrentKey(b) \in DOMAIN breakpoints
       /\ \A k \in DOMAIN breakpoints :
             \E b \in dbgBps : b.fileUri = breakpoints[k].fileUri
                               /\ b.line = breakpoints[k].line
       /\ sbpResponse.sent =>
             \A i \in DOMAIN sbpResponse.body :
                LET line == DebuggeeLine(sbpResponse.lines[i])
                IN (~sbpResponse.body[i].verified /\ line \notin VerifiedLines(sbpResponse.body)) =>
                      /\ line \notin LinesOf(OfFile(dbgBps, sbpResponse.filePath))
                      /\ RegistryKey(ToLowerCase(sbpResponse.filePath), line)
                            \notin DOMAIN breakpoints

\* ------------------------------------------------------- registry key clashes
\* Breakpoints are set in two files, one of whose paths ends in a digit, at
\* lines of one and of two digits; every command succeeds and requests come
\* one at a time.

KeyLines == {2, 12}

KeyFields == { a \in AdvancedFields : a.hitCondition = Undefined /\ a.logMessage = Undefined }

InitKeys ==
    /\ scope = [paths |-> ClientPaths, lines |-> KeyLines, overlap |-> FALSE,
                faults |-> FALSE, bps |-> MaxBps, ids |-> MaxSetIds,
                advanced |-> KeyFields, truths |-> BOOLEAN]
    /\ config = [stopOnEntry |-> FALSE, useAdvancedBreakpoint |-> TRUE]
    /\ hit = NoHit
    /\ log = NoLog
    /\ inst = NoInst
    /\ Launched

NextKeys ==
    \/ SetBreakPointsRequest
    \/ ListResponse
    \/ RemoveResponse
    \/ TaskSetResponse
    \/ TaskGetResponse

SpecKeys == InitKeys /\ [][NextKeys]_vars

\* the client's file of a debuggee location, without letter case
FileOf(loc) == ToLowerCase(ConvertDebuggerPathToClient(loc.fileUri))

\* C23: locations that differ in file path (other than by letter case) or in
\* line never share a registry record: the record found for a breakpoint the
\* debuggee holds is a record of that file and line, and two breakpoints at
\* different locations have different registry keys
C23_RecordsNotShared ==
    /\ \A b \in dbgBps :
          CurrentKey(b) \in DOMAIN breakpoints =>
             /\ FileOf(breakpoints[CurrentKey(b)]) = FileOf(b)
             /\ breakpoints[CurrentKey(b)].line = b.line
    /\ \A b1, b2 \in dbgBps :
          (FileOf(b1) # FileOf(b2) \/ b1.line # b2.line) => CurrentKey(b1) # CurrentKey(b2)

\* ----------------------------------------------- library function InstanceOf
\* One call of InstanceOf(object, superClass).  An argument is an object of
\* the debuggee, named by its address, or a primitive value, written 0.  The
\* base of an object is an object at a higher address, or none: every base
\* chain is finite.  The call is followed to its return and the call it
\* leaves behind until its promise settles.

MaxAddress == 4

Addresses == 1..MaxAddress

\* value instanceof dbgp.ObjectProperty
IsObjectProperty(value) == value \in Addresses

\* the base of each object: an address, or 0 for a base that is no object
BaseChains ==
    { h \in [Addresses -> 0..MaxAddress] : \A a \in Addresses : h[a] = 0 \/ h[a] > a }

\* fetchProperty(session, `${object.fullName}.base`, stackFrame)
FetchBase(base, object) == base[object]

\* what a JavaScript expression evaluates to: a boolean or an object
JsBool(b) == [kind |-> "boolean", truth |-> b]

\* the promise an async function returns when called without await
PendingPromise == [kind |-> "object", truth |-> FALSE]

\* Boolean(value): every object is true
ToBoolean(value) == value.kind = "object" \/ value.truth

\* instanceOf from the return of fetchProperty on: the value returned and
\* the object of the call left running, 0 for none
AfterFetch(baseClass, superClass) ==
    IF ~IsObjectProperty(baseClass) THEN [value |-> FALSE, nested |-> 0]
    ELSE IF baseClass = superClass THEN [value |-> TRUE, nested |-> 0]
    ELSE [value |-> ToBoolean(PendingPromise), nested |-> baseClass]

InitInst ==
    /\ scope = [paths |-> {}, lines |-> {}, overlap |-> FALSE, faults |-> FALSE,
                bps |-> 0, ids |-> 0, advanced |-> {}, truths |-> BOOLEAN]
    /\ config = [stopOnEntry |-> FALSE, useAdvancedBreakpoint |-> TRUE]
    /\ hit = NoHit
    /\ log = NoLog
    /\ inst \in [pc : {"called"}, object : 0..MaxAddress, superClass : 0..MaxAddress,
                  base : BaseChains, result : {FALSE}, nested : {0}]
    /\ Launched

instOther == <<scope, config, phase, ideStopped, terminated, breakpoints, dbgBps,
               dbgNextId, dbgLoc, cont, trace, lastEval, sbp, tasks, vscodeBreakpoints,
               sbpResponse, lastSet, projVars, stopMark, hit, log>>

\* instanceOf up to its await: the two type checks, then fetchProperty
InstanceOf ==
    /\ inst.pc = "called"
    /\ inst' = IF IsObjectProperty(inst.object) /\ IsObjectProperty(inst.superClass)
               THEN [inst EXCEPT !.pc = "fetching"]
               ELSE [inst EXCEPT !.pc = "returned", !.result = FALSE]
    /\ UNCHANGED instOther

\* fetchProperty returns: the call returns, a nested call possibly running
FetchReturnsBase ==
    /\ inst.pc = "fetching"
    /\ LET after == AfterFetch(FetchBase(inst.base, inst.object), inst.superClass)
       IN inst' = [inst EXCEPT !.pc = "returned", !.result = after.value,
                               !.nested = after.nested]
    /\ UNCHANGED instOther

\* fetchProperty of the nested call returns: its promise settles, a further
\* nested call possibly running
NestedFetchReturnsBase ==
    /\ inst.pc = "returned" /\ inst.nested # 0
    /\ inst' = [inst EXCEPT !.nested =
                   AfterFetch(FetchBase(inst.base, inst.nested), inst.superClass).nested]
    /\ UNCHANGED instOther

NextInst == InstanceOf \/ FetchReturnsBase \/ NestedFetchReturnsBase

SpecInst == InitInst /\ [][NextInst]_vars

RECURSIVE ReachedFrom(_, _, _)
\* superClass is on the base chain of object
ReachedFrom(base, object, superClass) ==
    /\ IsObjectProperty(base[object])
    /\ \/ base[object] = superClass
       \/ ReachedFrom(base, base[object], superClass)

\* C24: InstanceOf(object, superClass) returns true exactly when both
\* arguments are objects and superClass is reached by following the base
\* chain of object, and false when the chain ends without reaching it
C24_TrueExactlyWhenReached ==
    inst.pc = "returned" =>
       (inst.result <=> /\ IsObjectProperty(inst.object)
                        /\ IsObjectProperty(inst.superClass)
                        /\ ReachedFrom(inst.base, inst.object, inst.superClass))

====
